---- MODULE Spec2Model ----
(***************************************************************************)
(* SeniorCare Health Assistant API (backend/app.py).                       *)
(*                                                                         *)
(* The store is the three tables the handlers reach through the supabase   *)
(* client.  seniors and medications are the sequences of their rows in     *)
(* insertion order; reminder_logs is the set of its rows, without the      *)
(* store-generated id, which no handler reads (select("id") is only        *)
(* counted).  The clock holds the date and the time of day.                *)
(*                                                                         *)
(* A handler is served by a worker thread.  A handler that makes one call  *)
(* on the client is one action, taken when the store applies the call.  A  *)
(* handler that reads the clock and calls the client, or calls it twice,   *)
(* is one action per clock read and per call, with the request in flight   *)
(* between them, so that the calls of other requests and midnight fall     *)
(* between its steps.  A response is delivered before the next step is     *)
(* taken, so that resp is the response of the request that completed last. *)
(*                                                                         *)
(* The store accepts a log for any medication_id (the code relies on no    *)
(* foreign key); a call the store rejects is an adapter failure.  A call   *)
(* that fails writes nothing.                                              *)
(*                                                                         *)
(* Strings that the code strips or tests for truth are sequences of        *)
(* one-character strings; a percentage is held in tenths of a percent.     *)
(***************************************************************************)
EXTENDS Integers, Sequences, FiniteSets, Bags

VARIABLES
    configured,   \* supabase client was created (SUPABASE_URL and SUPABASE_ANON_KEY set)
    seniors,      \* table "seniors"
    medications,  \* table "medications"
    reminder_logs,\* table "reminder_logs"
    clock,        \* the server clock: [date, time]
    acks,         \* bag of the acknowledge_med requests in flight
    schedules,    \* bag of the get_today_schedule requests in flight
    summaries,    \* bag of the get_adherence_summary requests in flight
    resp,         \* the response being delivered, with what the request read
    everInactive, \* history: ids of medications that have had is_active = FALSE
    env,          \* which credentials the environment sets (non-empty)
    tr            \* the translate request being served

vars == <<configured, seniors, medications, reminder_logs, clock, acks, schedules,
          summaries, resp, everInactive, env, tr>>

----------------------------------------------------------------------------
(* Bounds of the model *)

MaxMeds == 2
MaxCount == 4
MaxLen == 2

Dates == {0, 1}
Times == {0, 1}
Workers == {"w1", "w2"}
SeniorIds == {1, 2}
ProfileIds == {1}
AckIds == {1}
Names == {"Asha", "Ravi"}
Statuses == {"taken", "missed"}
NetworkError == "network error"
NoClientError == "'NoneType' object has no attribute 'table'"

Range(s) == {s[i] : i \in DOMAIN s}

NoResponse == [op |-> "none", arg |-> 0, failed |-> FALSE, code |-> 0, body |-> <<>>]

\* no response is being delivered
Idle == resp = NoResponse

\* the requests in flight
InFlight == BagCardinality(acks) + BagCardinality(schedules) + BagCardinality(summaries)

\* a worker thread is free to take a request
Free == InFlight < Cardinality(Workers)

\* the bag b with one copy of r more, or less
Put(b, r) == b (+) SetToBag({r})
Take(b, r) == b (-) SetToBag({r})

----------------------------------------------------------------------------
(* The clock *)

Tick ==
    /\ Idle
    /\ clock.time + 1 \in Times
    /\ clock' = [clock EXCEPT !.time = @ + 1]
    /\ UNCHANGED <<configured, seniors, medications, reminder_logs, acks, schedules,
                   summaries, resp, everInactive, env, tr>>

NextDay ==
    /\ Idle
    /\ clock.date + 1 \in Dates
    /\ clock' = [date |-> clock.date + 1, time |-> 0]
    /\ UNCHANGED <<configured, seniors, medications, reminder_logs, acks, schedules,
                   summaries, resp, everInactive, env, tr>>

\* date.today()
DateToday == clock.date

\* datetime.now()
DatetimeNow == clock

\* the response is sent
Deliver ==
    /\ ~Idle
    /\ resp' = NoResponse
    /\ UNCHANGED <<configured, seniors, medications, reminder_logs, clock, acks,
                   schedules, summaries, everInactive, env, tr>>

----------------------------------------------------------------------------
(* The adapter: the outcome of a call on the supabase client, "ok" or the  *)
(* message of the exception raised.  Without a client every call raises    *)
(* (supabase is None).                                                     *)

AdapterOutcomes == IF configured THEN {"ok", NetworkError} ELSE {NoClientError}

Ok(code, op, arg, body) ==
    [op |-> op, arg |-> arg, failed |-> FALSE, code |-> code, body |-> body]

Failed(code, op, body) ==
    [op |-> op, arg |-> 0, failed |-> TRUE, code |-> code, body |-> body]

HTTPException500(op, e) == Failed(500, op, [detail |-> e])

InactiveIds(meds) == {m.id : m \in {r \in Range(meds) : ~r.is_active}}

----------------------------------------------------------------------------
(* Senior profile *)

FallbackSenior ==
    [id |-> 1, name |-> "Senior User", emergency_info |-> "Call 911 in case of emergency."]

\* .select("*").eq("id", senior_id)
SelectSenior(senior_id) == SelectSeq(seniors, LAMBDA r : r.id = senior_id)

\* .upsert(row): insert, or replace the row with the same primary key
UpsertSenior(row) ==
    IF \E i \in DOMAIN seniors : seniors[i].id = row.id
    THEN [i \in DOMAIN seniors |-> IF seniors[i].id = row.id THEN row ELSE seniors[i]]
    ELSE Append(seniors, row)

get_senior(senior_id, outcome) ==
    /\ resp' = IF outcome = "ok" /\ Len(SelectSenior(senior_id)) = 1
               THEN Ok(200, "get_senior", senior_id, SelectSenior(senior_id)[1])
               ELSE Failed(200, "get_senior", FallbackSenior)
    /\ UNCHANGED <<configured, seniors, medications, reminder_logs, clock, acks,
                   schedules, summaries, everInactive, env, tr>>

update_senior(senior_id, name, emergency_info, outcome) ==
    /\ IF outcome = "ok"
       THEN /\ seniors' = UpsertSenior([id |-> senior_id, name |-> name,
                                        emergency_info |-> emergency_info])
            /\ resp' = Ok(200, "update_senior", senior_id,
                          [id |-> senior_id, name |-> name,
                           emergency_info |-> emergency_info])
       ELSE /\ seniors' = seniors
            /\ resp' = HTTPException500("update_senior", outcome)
    /\ UNCHANGED <<configured, medications, reminder_logs, clock, acks,
                   schedules, summaries, everInactive, env, tr>>

----------------------------------------------------------------------------
(* Medication CRUD *)

\* .select("*").eq("senior_id", senior_id).eq("is_active", True)
SelectActiveMeds(senior_id) ==
    SelectSeq(medications, LAMBDA m : m.senior_id = senior_id /\ m.is_active)

\* .insert(data): the store generates the id
InsertMedication(data) ==
    Append(medications,
           [id |-> Len(medications) + 1, name |-> data.name, dosage |-> data.dosage,
            time |-> data.time, frequency |-> data.frequency,
            pill_color |-> data.pill_color, senior_id |-> data.senior_id,
            is_active |-> data.is_active])

\* Mutant of UpdateInactive: the flag is flipped
UpdateToggled(med_id) ==
    [i \in DOMAIN medications |->
        IF medications[i].id = med_id
        THEN [medications[i] EXCEPT !.is_active = ~@]
        ELSE medications[i]]

\* Mutant of UpdateInactive: the row is removed
DeleteRow(med_id) == SelectSeq(medications, LAMBDA m : m.id # med_id)

\* .update({"is_active": False}).eq("id", med_id)
UpdateInactive(med_id) ==
    [i \in DOMAIN medications |->
        IF medications[i].id = med_id
        THEN [medications[i] EXCEPT !.is_active = FALSE]
        ELSE medications[i]]

\* Mutant of get_medications: the adapter's failure is raised as a 500
get_medications_raising(senior_id, outcome) ==
    /\ resp' = IF outcome = "ok"
               THEN Ok(200, "get_medications", senior_id, SelectActiveMeds(senior_id))
               ELSE HTTPException500("get_medications", outcome)
    /\ UNCHANGED <<configured, seniors, medications, reminder_logs, clock, acks,
                   schedules, summaries, everInactive, env, tr>>

get_medications(senior_id, outcome) ==
    /\ resp' = IF outcome = "ok"
               THEN Ok(200, "get_medications", senior_id, SelectActiveMeds(senior_id))
               ELSE Failed(200, "get_medications", <<>>)
    /\ UNCHANGED <<configured, seniors, medications, reminder_logs, clock, acks,
                   schedules, summaries, everInactive, env, tr>>

add_medication(req, outcome) ==
    /\ Len(medications) < MaxMeds
    /\ IF outcome = "ok"
       THEN /\ medications' =
                 InsertMedication([name |-> req.name, dosage |-> req.dosage,
                                   time |-> req.time, frequency |-> req.frequency,
                                   pill_color |-> req.pill_color,
                                   senior_id |-> req.senior_id, is_active |-> TRUE])
            /\ resp' = Ok(200, "add_medication", req.senior_id,
                          medications'[Len(medications')])
       ELSE /\ medications' = medications
            /\ resp' = HTTPException500("add_medication", outcome)
    /\ everInactive' = everInactive \cup InactiveIds(medications')
    /\ UNCHANGED <<configured, seniors, reminder_logs, clock, acks, schedules,
                   summaries, env, tr>>

\* Mutant of delete_medication: an update that matches no row is a 404
delete_medication_strict(med_id, outcome) ==
    /\ IF outcome = "ok"
       THEN /\ medications' = UpdateInactive(med_id)
            /\ resp' = IF \E i \in DOMAIN medications : medications[i].id = med_id
                       THEN Ok(200, "delete_medication", med_id, [status |-> "deleted"])
                       ELSE Ok(404, "delete_medication", med_id, [status |-> "not found"])
       ELSE /\ medications' = medications
            /\ resp' = HTTPException500("delete_medication", outcome)
    /\ everInactive' = everInactive \cup InactiveIds(medications')
    /\ UNCHANGED <<configured, seniors, reminder_logs, clock, acks, schedules,
                   summaries, env, tr>>

delete_medication(med_id, outcome) ==
    /\ IF outcome = "ok"
       THEN /\ medications' = UpdateInactive(med_id)
            /\ resp' = Ok(200, "delete_medication", med_id, [status |-> "deleted"])
       ELSE /\ medications' = medications
            /\ resp' = HTTPException500("delete_medication", outcome)
    /\ everInactive' = everInactive \cup InactiveIds(medications')
    /\ UNCHANGED <<configured, seniors, reminder_logs, clock, acks, schedules,
                   summaries, env, tr>>

----------------------------------------------------------------------------
(* Schedule *)

\* Mutant of SelectLogsOn: the date filter is missing
SelectLogsAnyDay(day) == reminder_logs

\* .select("*").eq("taken_on", today)
SelectLogsOn(day) == {l \in reminder_logs : l.taken_on = day}

\* {log["medication_id"]: log for log in rows}.get(med_id): <<row>>, or <<>> for None
LogsGet(rows, med_id) ==
    IF \E l \in rows : l.medication_id = med_id
    THEN <<CHOOSE l \in rows : l.medication_id = med_id>>
    ELSE <<>>

\* med["log"] = logs.get(med["id"])
WithLog(med, rows) ==
    [id |-> med.id, name |-> med.name, dosage |-> med.dosage, time |-> med.time,
     frequency |-> med.frequency, pill_color |-> med.pill_color,
     senior_id |-> med.senior_id, is_active |-> med.is_active,
     log |-> LogsGet(rows, med.id)]

\* the join of the medications selected with the logs of the date read
TodaySchedule(meds, today) ==
    LET logs == SelectLogsOn(today)
    IN  [i \in DOMAIN meds |-> WithLog(meds[i], logs)]

\* get_today_schedule, the select on medications
get_today_schedule_meds(senior_id, outcome) ==
    /\ IF outcome = "ok"
       THEN /\ schedules' = Put(schedules, [senior_id |-> senior_id, pc |-> "today",
                                            meds |-> SelectActiveMeds(senior_id),
                                            today |-> 0])
            /\ resp' = resp
       ELSE /\ schedules' = schedules
            /\ resp' = Failed(200, "get_today_schedule", <<>>)
    /\ UNCHANGED <<configured, seniors, medications, reminder_logs, clock, acks,
                   summaries, everInactive, env, tr>>

\* get_today_schedule, today = date.today().isoformat()
get_today_schedule_today(r) ==
    /\ r.pc = "today"
    /\ schedules' = Put(Take(schedules, r), [r EXCEPT !.pc = "logs", !.today = DateToday])
    /\ UNCHANGED <<configured, seniors, medications, reminder_logs, clock, acks,
                   summaries, resp, everInactive, env, tr>>

\* get_today_schedule, from the select on reminder_logs on
get_today_schedule_logs(r, outcome) ==
    /\ r.pc = "logs"
    /\ schedules' = Take(schedules, r)
    /\ resp' = IF outcome = "ok"
               THEN Ok(200, "get_today_schedule",
                       [senior_id |-> r.senior_id, meds |-> r.meds, today |-> r.today],
                       TodaySchedule(r.meds, r.today))
               ELSE Failed(200, "get_today_schedule", <<>>)
    /\ UNCHANGED <<configured, seniors, medications, reminder_logs, clock, acks,
                   summaries, everInactive, env, tr>>

----------------------------------------------------------------------------
(* Acknowledgment *)

\* Mutant of UpsertLog: a plain insert
InsertLog(data) == reminder_logs \cup {data}

\* .upsert(data, on_conflict="medication_id,taken_on"): the row with the same
\* (medication_id, taken_on) is replaced, else the row is inserted
UpsertLog(data) ==
    {l \in reminder_logs : ~(/\ l.medication_id = data.medication_id
                             /\ l.taken_on = data.taken_on)} \cup {data}

\* the request data of an acknowledgment in flight
AcknowledgeData(r) ==
    [medication_id |-> r.medication_id, status |-> r.status,
     taken_on |-> r.taken_on, taken_at |-> r.taken_at]

\* acknowledge_med, today = date.today().isoformat()
acknowledge_med_today(req) ==
    /\ acks' = Put(acks, [medication_id |-> req.medication_id, status |-> req.status,
                          pc |-> "now", taken_on |-> DateToday,
                          taken_at |-> [date |-> 0, time |-> 0]])
    /\ UNCHANGED <<configured, seniors, medications, reminder_logs, clock, schedules,
                   summaries, resp, everInactive, env, tr>>

\* acknowledge_med, "taken_at": datetime.now().isoformat()
acknowledge_med_now(r) ==
    /\ r.pc = "now"
    /\ acks' = Put(Take(acks, r), [r EXCEPT !.pc = "upsert", !.taken_at = DatetimeNow])
    /\ UNCHANGED <<configured, seniors, medications, reminder_logs, clock, schedules,
                   summaries, resp, everInactive, env, tr>>

\* acknowledge_med, from the upsert on
acknowledge_med_upsert(r, outcome) ==
    /\ r.pc = "upsert"
    /\ acks' = Take(acks, r)
    /\ IF outcome = "ok"
       THEN /\ reminder_logs' = UpsertLog(AcknowledgeData(r))
            /\ resp' = Ok(200, "acknowledge_med",
                          [medication_id |-> r.medication_id,
                           prior |-> LogsGet(SelectLogsOn(r.taken_on), r.medication_id),
                           rows |-> Cardinality(reminder_logs)],
                          AcknowledgeData(r))
       ELSE /\ reminder_logs' = reminder_logs
            /\ resp' = HTTPException500("acknowledge_med", outcome)
    /\ UNCHANGED <<configured, seniors, medications, clock, schedules, summaries,
                   everInactive, env, tr>>

----------------------------------------------------------------------------
(* Adherence *)

\* .select("id").eq("taken_on", today).eq("status", "taken")
SelectTakenOn(day) == {l \in reminder_logs : l.taken_on = day /\ l.status = "taken"}

\* Mutant of RoundTenths: the digits after the first decimal are cut off
TruncTenths(taken, total) == (1000 * taken) \div total

\* The arithmetic of the percentage is that of doubles: a double is [m, e], the 53
\* binary digits of its significand, the most significant first, and the exponent
\* of the first of them.

Zeros(k) == [i \in 1..k |-> 0]

\* the binary digits of a natural number, the most significant first
RECURSIVE Bits(_)
Bits(k) == IF k = 0 THEN <<>> ELSE Append(Bits(k \div 2), k % 2)

\* the digits of the sum of two naturals given by their digits: a position takes a
\* carry when a position after it has two 1s and every position between has a 1
AddBits(a, b) ==
    LET n == IF Len(a) > Len(b) THEN Len(a) ELSE Len(b)
        x == Zeros(n - Len(a)) \o a
        y == Zeros(n - Len(b)) \o b
        Carry(i) == \E j \in (i + 1)..n :
                       /\ x[j] + y[j] = 2
                       /\ \A k \in (i + 1)..(j - 1) : x[k] + y[k] >= 1
        sum == [i \in 1..n |-> (x[i] + y[i] + (IF Carry(i) THEN 1 ELSE 0)) % 2]
    IN  IF Carry(0) THEN <<1>> \o sum ELSE sum

\* the order of two naturals given by their digits: -1, 0 or 1
CompareBits(a, b) ==
    IF Len(a) # Len(b) THEN (IF Len(a) < Len(b) THEN -1 ELSE 1)
    ELSE IF a = b THEN 0
    ELSE LET i == CHOOSE k \in DOMAIN a :
                     a[k] # b[k] /\ \A j \in 1..(k - 1) : a[j] = b[j]
         IN  IF a[i] < b[i] THEN -1 ELSE 1

\* the double nearest to the number with the digits given, the first of exponent e,
\* followed by a non-zero rest when sticky; a tie goes to the even significand
RoundBits(bits, sticky, e) ==
    IF Len(bits) <= 53 THEN [m |-> bits \o Zeros(53 - Len(bits)), e |-> e]
    ELSE LET kept == SubSeq(bits, 1, 53)
             rest == sticky \/ \E i \in 55..Len(bits) : bits[i] = 1
             up == bits[54] = 1 /\ (rest \/ kept[53] = 1)
             m == IF up THEN AddBits(kept, <<1>>) ELSE kept
         IN  IF Len(m) = 54 THEN [m |-> SubSeq(m, 1, 53), e |-> e + 1]
             ELSE [m |-> m, e |-> e]

\* the digits of r / n after those of acc, until need of them are there from the
\* first 1 on; zeros counts the zeros before it
RECURSIVE QuotientBits(_, _, _, _, _)
QuotientBits(r, n, need, acc, zeros) ==
    IF need = 0 THEN [bits |-> acc, rem |-> r, zeros |-> zeros]
    ELSE LET b == IF 2 * r >= n THEN 1 ELSE 0
         IN  IF acc = <<>> /\ b = 0
             THEN QuotientBits(2 * r, n, need, acc, zeros + 1)
             ELSE QuotientBits(2 * r - b * n, n, need - 1, Append(acc, b), zeros)

\* taken_meds / total_meds, for taken_meds > 0
Divide(taken, total) ==
    LET lead == Bits(taken \div total)
        g == QuotientBits(taken % total, total, 54 - Len(lead), lead, 0)
    IN  RoundBits(g.bits, g.rem # 0,
                  IF lead # <<>> THEN Len(lead) - 1 ELSE 0 - (g.zeros + 1))

\* x * 100
Times100(x) ==
    LET p == AddBits(AddBits(x.m \o Zeros(6), x.m \o Zeros(5)), x.m \o Zeros(2))
    IN  RoundBits(p, FALSE, x.e - 52 + Len(p) - 1)

\* the order of the double x and k / 20: -1, 0 or 1
CompareTwentieths(x, k) ==
    CompareBits(AddBits(x.m \o Zeros(4), x.m \o Zeros(2))
                   \o Zeros(IF x.e > 52 THEN x.e - 52 ELSE 0),
                Bits(k) \o Zeros(IF x.e < 52 THEN 52 - x.e ELSE 0))

\* round(taken / total * 100, 1), in tenths of a percent: the tenth nearest to the
\* double; when the quotient is half way between two tenths the double decides,
\* and when the double is half way too the even tenth is taken
RoundTenths(taken, total) ==
    LET q == (1000 * taken) \div total
        r == (1000 * taken) % total
    IN  IF 2 * r < total THEN q
        ELSE IF 2 * r > total THEN q + 1
        ELSE LET c == CompareTwentieths(Times100(Divide(taken, total)), 2 * q + 1)
             IN  IF c < 0 THEN q
                 ELSE IF c > 0 THEN q + 1
                 ELSE IF q % 2 = 0 THEN q ELSE q + 1

\* {"total": ..., "taken": ..., "percentage": round(percentage, 1)}
AdherenceSummary(total_meds, taken_meds) ==
    [total |-> total_meds, taken |-> taken_meds,
     percentage |-> IF total_meds > 0 THEN RoundTenths(taken_meds, total_meds) ELSE 1000]

\* get_adherence_summary, today = date.today().isoformat()
get_adherence_summary_today(senior_id) ==
    /\ summaries' = Put(summaries, [senior_id |-> senior_id, pc |-> "meds",
                                    today |-> DateToday, total |-> 0])
    /\ UNCHANGED <<configured, seniors, medications, reminder_logs, clock, acks,
                   schedules, resp, everInactive, env, tr>>

\* get_adherence_summary, the select on medications
get_adherence_summary_meds(r, outcome) ==
    /\ r.pc = "meds"
    /\ IF outcome = "ok"
       THEN /\ summaries' = Put(Take(summaries, r),
                                [r EXCEPT !.pc = "logs",
                                          !.total = Len(SelectActiveMeds(r.senior_id))])
            /\ resp' = resp
       ELSE /\ summaries' = Take(summaries, r)
            /\ resp' = Failed(200, "get_adherence_summary",
                              [total |-> 0, taken |-> 0, percentage |-> 0])
    /\ UNCHANGED <<configured, seniors, medications, reminder_logs, clock, acks,
                   schedules, everInactive, env, tr>>

\* get_adherence_summary, from the select on reminder_logs on
get_adherence_summary_logs(r, outcome) ==
    /\ r.pc = "logs"
    /\ summaries' = Take(summaries, r)
    /\ resp' = IF outcome = "ok"
               THEN Ok(200, "get_adherence_summary",
                       [senior_id |-> r.senior_id, today |-> r.today],
                       AdherenceSummary(r.total, Cardinality(SelectTakenOn(r.today))))
               ELSE Failed(200, "get_adherence_summary",
                           [total |-> 0, taken |-> 0, percentage |-> 0])
    /\ UNCHANGED <<configured, seniors, medications, reminder_logs, clock, acks,
                   schedules, everInactive, env, tr>>

----------------------------------------------------------------------------
(* Translation and simplification *)

\* An optional string: None, or the string
None == [some |-> FALSE, val |-> <<>>]
Some(str) == [some |-> TRUE, val |-> str]
Truthy(v) == v.some /\ v.val # <<>>

\* a or b
PyOr(a, b) == IF Truthy(a) THEN a ELSE b

\* the characters str.strip() removes: those of str.isspace(), the ones without an
\* escape named by their code point
Whitespace ==
    {" ", "\t", "\n", "\r", "\f", "U+000B", "U+001C", "U+001D", "U+001E", "U+001F",
     "U+0085", "U+00A0", "U+1680", "U+2000", "U+2001", "U+2002", "U+2003", "U+2004",
     "U+2005", "U+2006", "U+2007", "U+2008", "U+2009", "U+200A", "U+2028", "U+2029",
     "U+202F", "U+205F", "U+3000"}

RECURSIVE LStrip(_)
LStrip(str) == IF str # <<>> /\ Head(str) \in Whitespace THEN LStrip(Tail(str)) ELSE str

RECURSIVE RStrip(_)
RStrip(str) ==
    IF str # <<>> /\ str[Len(str)] \in Whitespace
    THEN RStrip(SubSeq(str, 1, Len(str) - 1))
    ELSE str

\* str.strip()
Strip(str) == RStrip(LStrip(str))

\* What the language model answers: the call raises, or returns a content
LmOutcomes ==
    {[raised |-> TRUE, content |-> <<>>]} \cup
    {[raised |-> FALSE, content |-> c] : c \in {<<>>, <<"b">>, <<" ", "b", "\n">>}}

\* What the translation provider answers: the call raises, or returns a status
\* and a JSON object
LingoFields == {None, Some(<<>>), Some(<<"c">>)}
LingoOutcomes ==
    [raised : {TRUE}, status_code : {0}, data : {[translation |-> None,
                                                  translatedText |-> None,
                                                  result |-> None]}] \cup
    [raised : {FALSE}, status_code : {200, 500},
     data : [translation : LingoFields, translatedText : {None, Some(<<"d">>)},
             result : {None, Some(<<>>)}]]

\* call_lingo_translate: [outbound, value]
call_lingo_translate(text, target, outcome) ==
    IF ~env.LINGO_API_KEY \/ ~env.LINGO_PROJECT_ID
    THEN [outbound |-> FALSE, value |-> None]
    ELSE [outbound |-> TRUE,
          value |-> IF ~outcome.raised /\ outcome.status_code = 200
                    THEN PyOr(PyOr(outcome.data.translation,
                                   outcome.data.translatedText),
                              outcome.data.result)
                    ELSE None]

\* openai_simplify: [outbound, raised, value]
openai_simplify(text, outcome) ==
    IF ~env.OPENAI_API_KEY
    THEN [outbound |-> FALSE, raised |-> FALSE, value |-> text]
    ELSE [outbound |-> TRUE, raised |-> FALSE,
          value |-> IF outcome.raised THEN text ELSE Strip(outcome.content)]

\* openai_translate: [outbound, raised, value]
openai_translate(text, target, outcome) ==
    IF ~env.OPENAI_API_KEY
    THEN [outbound |-> FALSE, raised |-> FALSE, value |-> text]
    ELSE [outbound |-> TRUE, raised |-> FALSE,
          value |-> IF outcome.raised THEN text ELSE Strip(outcome.content)]

TrIdle ==
    [pc |-> "idle", req |-> <<>>, text |-> <<>>, target |-> <<>>, simplified |-> <<>>,
     translation |-> None, calls |-> <<>>, resp |-> <<>>]

\* A call of a helper: its text argument, whether it went out to the provider, and
\* what it returned
Call(fn, text, r) ==
    [fn |-> fn, text |-> text, outbound |-> r.outbound, value |-> r.value]

\* translate: the request is stripped and validated
TranslateBegin(req) ==
    /\ tr.pc = "idle"
    /\ tr' = IF Strip(req.text) = <<>>
             THEN [tr EXCEPT !.pc = "done", !.req = req,
                             !.text = Strip(req.text),
                             !.target = Strip(req.target_lang),
                             !.resp = [code |-> 400, detail |-> "Text is required."]]
             ELSE [tr EXCEPT !.pc = "simplify", !.req = req,
                             !.text = Strip(req.text),
                             !.target = Strip(req.target_lang)]
    /\ UNCHANGED <<configured, seniors, medications, reminder_logs, clock, acks,
                   schedules, summaries, resp, everInactive, env>>

\* simplified = openai_simplify(text)
TranslateSimplify ==
    /\ tr.pc = "simplify"
    /\ \E o \in LmOutcomes :
          LET r == openai_simplify(tr.text, o)
          IN  tr' = [tr EXCEPT !.pc = "lingo", !.simplified = r.value,
                               !.calls = Append(@, Call("openai_simplify", tr.text, r))]
    /\ UNCHANGED <<configured, seniors, medications, reminder_logs, clock, acks,
                   schedules, summaries, resp, everInactive, env>>

\* Mutant of TranslateLingo: the text before simplification is translated
TranslateLingoUnsimplified ==
    /\ tr.pc = "lingo"
    /\ \E o \in LingoOutcomes :
          LET r == call_lingo_translate(tr.text, tr.target, o)
              calls == Append(tr.calls, Call("call_lingo_translate", tr.text, r))
          IN  tr' = IF Truthy(r.value)
                    THEN [tr EXCEPT !.pc = "done", !.translation = r.value,
                                    !.calls = calls,
                                    !.resp = [code |-> 200,
                                              translated_text |-> r.value.val,
                                              target_lang |-> tr.target,
                                              provider |-> "lingo.dev",
                                              quality |-> "senior-simplified"]]
                    ELSE [tr EXCEPT !.pc = "openai", !.translation = r.value,
                                    !.calls = calls]
    /\ UNCHANGED <<configured, seniors, medications, reminder_logs, clock, acks,
                   schedules, summaries, resp, everInactive, env>>

\* translation = await call_lingo_translate(simplified, target); if translation: return
TranslateLingo ==
    /\ tr.pc = "lingo"
    /\ \E o \in LingoOutcomes :
          LET r == call_lingo_translate(tr.simplified, tr.target, o)
              calls == Append(tr.calls, Call("call_lingo_translate", tr.simplified, r))
          IN  tr' = IF Truthy(r.value)
                    THEN [tr EXCEPT !.pc = "done", !.translation = r.value,
                                    !.calls = calls,
                                    !.resp = [code |-> 200,
                                              translated_text |-> r.value.val,
                                              target_lang |-> tr.target,
                                              provider |-> "lingo.dev",
                                              quality |-> "senior-simplified"]]
                    ELSE [tr EXCEPT !.pc = "openai", !.translation = r.value,
                                    !.calls = calls]
    /\ UNCHANGED <<configured, seniors, medications, reminder_logs, clock, acks,
                   schedules, summaries, resp, everInactive, env>>

\* try: translation = openai_translate(simplified, target) ... except: ...
TranslateOpenai ==
    /\ tr.pc = "openai"
    /\ \E o \in LmOutcomes :
          LET r == openai_translate(tr.simplified, tr.target, o)
              calls == Append(tr.calls, Call("openai_translate", tr.simplified, r))
          IN  tr' = IF ~r.raised
                    THEN [tr EXCEPT !.pc = "done", !.translation = Some(r.value),
                                    !.calls = calls,
                                    !.resp = [code |-> 200,
                                              translated_text |-> r.value,
                                              target_lang |-> tr.target,
                                              provider |-> "openai",
                                              quality |-> "senior-simplified"]]
                    ELSE [tr EXCEPT !.pc = "done", !.calls = calls,
                                    !.resp = [code |-> 200,
                                              translated_text |-> tr.text,
                                              target_lang |-> tr.target,
                                              provider |-> "none"]]
    /\ UNCHANGED <<configured, seniors, medications, reminder_logs, clock, acks,
                   schedules, summaries, resp, everInactive, env>>

RECURSIVE SeqsUpTo(_, _)
SeqsUpTo(chars, n) ==
    IF n = 0 THEN {<<>>}
    ELSE LET shorter == SeqsUpTo(chars, n - 1)
         IN  shorter \cup {Append(t, c) : t \in shorter, c \in chars}

TranslateRequests ==
    [text : SeqsUpTo({" ", "\n", "a"}, MaxLen),
     target_lang : {<<"h", "i">>, <<"\t", "h", "i">>, <<"x", "x">>}]

Translate == \E req \in TranslateRequests : TranslateBegin(req)

----------------------------------------------------------------------------
(* Requests *)

MedicationRequests ==
    [name : {"Aspirin"}, dosage : {"1"}, time : {"08:00"}, frequency : {"daily"},
     pill_color : {"white"}, senior_id : SeniorIds]

AcknowledgeRequests == [medication_id : AckIds, status : Statuses]

NoCredentials ==
    [LINGO_API_KEY |-> FALSE, LINGO_PROJECT_ID |-> FALSE, OPENAI_API_KEY |-> FALSE]

Init ==
    /\ configured \in BOOLEAN
    /\ seniors = <<>>
    /\ medications = <<>>
    /\ reminder_logs = {}
    /\ clock = [date |-> 0, time |-> 0]
    /\ acks = EmptyBag
    /\ schedules = EmptyBag
    /\ summaries = EmptyBag
    /\ resp = NoResponse
    /\ everInactive = {}
    /\ env = NoCredentials
    /\ tr = TrIdle

GetSenior ==
    /\ Idle
    /\ Free
    /\ \E s \in SeniorIds, o \in AdapterOutcomes : get_senior(s, o)

UpdateSenior ==
    /\ Idle
    /\ Free
    /\ \E s \in ProfileIds, n \in Names, o \in AdapterOutcomes :
          update_senior(s, n, "Call 911", o)

GetMedications ==
    /\ Idle
    /\ Free
    /\ \E s \in SeniorIds, o \in AdapterOutcomes : get_medications(s, o)

AddMedication ==
    /\ Idle
    /\ Free
    /\ \E r \in MedicationRequests, o \in AdapterOutcomes : add_medication(r, o)

DeleteMedication ==
    /\ Idle
    /\ Free
    /\ \E m \in 1..(MaxMeds + 1), o \in AdapterOutcomes : delete_medication(m, o)

GetTodayScheduleMeds ==
    /\ Idle
    /\ Free
    /\ \E s \in SeniorIds, o \in AdapterOutcomes : get_today_schedule_meds(s, o)

GetTodayScheduleToday ==
    /\ Idle
    /\ \E r \in BagToSet(schedules) : get_today_schedule_today(r)

GetTodayScheduleLogs ==
    /\ Idle
    /\ \E r \in BagToSet(schedules), o \in AdapterOutcomes :
          get_today_schedule_logs(r, o)

AcknowledgeMedToday ==
    /\ Idle
    /\ Free
    /\ \E r \in AcknowledgeRequests : acknowledge_med_today(r)

AcknowledgeMedNow ==
    /\ Idle
    /\ \E r \in BagToSet(acks) : acknowledge_med_now(r)

AcknowledgeMedUpsert ==
    /\ Idle
    /\ \E r \in BagToSet(acks), o \in AdapterOutcomes : acknowledge_med_upsert(r, o)

GetAdherenceSummaryToday ==
    /\ Idle
    /\ Free
    /\ \E s \in SeniorIds : get_adherence_summary_today(s)

GetAdherenceSummaryMeds ==
    /\ Idle
    /\ \E r \in BagToSet(summaries), o \in AdapterOutcomes :
          get_adherence_summary_meds(r, o)

GetAdherenceSummaryLogs ==
    /\ Idle
    /\ \E r \in BagToSet(summaries), o \in AdapterOutcomes :
          get_adherence_summary_logs(r, o)

Next ==
    \/ Tick
    \/ NextDay
    \/ Deliver
    \/ GetSenior
    \/ UpdateSenior
    \/ GetMedications
    \/ AddMedication
    \/ DeleteMedication
    \/ GetTodayScheduleMeds
    \/ GetTodayScheduleToday
    \/ GetTodayScheduleLogs
    \/ AcknowledgeMedToday
    \/ AcknowledgeMedNow
    \/ AcknowledgeMedUpsert
    \/ GetAdherenceSummaryToday
    \/ GetAdherenceSummaryMeds
    \/ GetAdherenceSummaryLogs

Spec == Init /\ [][Next]_vars

----------------------------------------------------------------------------
(* The four writes, for the acknowledgments in flight together *)

NextInterleaved ==
    \/ Tick
    \/ NextDay
    \/ Deliver
    \/ UpdateSenior
    \/ AddMedication
    \/ DeleteMedication
    \/ AcknowledgeMedToday
    \/ AcknowledgeMedNow
    \/ AcknowledgeMedUpsert

SpecInterleaved == Init /\ [][NextInterleaved]_vars

----------------------------------------------------------------------------
(* The schedule among the writes on medications and reminder_logs *)

NextSchedule ==
    \/ Tick
    \/ NextDay
    \/ Deliver
    \/ AddMedication
    \/ DeleteMedication
    \/ AcknowledgeMedToday
    \/ AcknowledgeMedNow
    \/ AcknowledgeMedUpsert
    \/ GetTodayScheduleMeds
    \/ GetTodayScheduleToday
    \/ GetTodayScheduleLogs

SpecSchedule == Init /\ [][NextSchedule]_vars

----------------------------------------------------------------------------
(* The adherence summary over every medications table of up to MaxCount    *)
(* rows and over today's logs of the first medications, the earliest of    *)
(* them "taken": states that creates, soft deletes and acknowledgments     *)
(* reach.  No write is served.                                             *)

MedicationRow(id, senior_id, is_active) ==
    [id |-> id, name |-> "Aspirin", dosage |-> "1", time |-> "08:00",
     frequency |-> "daily", pill_color |-> "white", senior_id |-> senior_id,
     is_active |-> is_active]

MedicationTables ==
    UNION {{[i \in 1..n |-> MedicationRow(i, f[i][1], f[i][2])] :
               f \in [1..n -> SeniorIds \X BOOLEAN]} : n \in 0..MaxCount}

LogTables ==
    {{[medication_id |-> i, status |-> IF i <= k THEN "taken" ELSE "missed",
       taken_on |-> 0, taken_at |-> [date |-> 0, time |-> 0]] : i \in 1..j} :
        k \in 0..MaxCount, j \in 0..MaxCount}

InitAdherence ==
    /\ configured = TRUE
    /\ seniors = <<>>
    /\ medications \in MedicationTables
    /\ reminder_logs \in LogTables
    /\ clock = [date |-> 0, time |-> 0]
    /\ acks = EmptyBag
    /\ schedules = EmptyBag
    /\ summaries = EmptyBag
    /\ resp = NoResponse
    /\ everInactive = InactiveIds(medications)
    /\ env = NoCredentials
    /\ tr = TrIdle

NextAdherence ==
    \/ NextDay
    \/ Deliver
    \/ GetAdherenceSummaryToday
    \/ GetAdherenceSummaryMeds
    \/ GetAdherenceSummaryLogs

SpecAdherence == InitAdherence /\ [][NextAdherence]_vars

----------------------------------------------------------------------------
(* One translate request under every environment *)

InitTranslate ==
    /\ configured = FALSE
    /\ seniors = <<>>
    /\ medications = <<>>
    /\ reminder_logs = {}
    /\ clock = [date |-> 0, time |-> 0]
    /\ acks = EmptyBag
    /\ schedules = EmptyBag
    /\ summaries = EmptyBag
    /\ resp = NoResponse
    /\ everInactive = {}
    /\ env \in [LINGO_API_KEY : BOOLEAN, LINGO_PROJECT_ID : BOOLEAN,
                 OPENAI_API_KEY : BOOLEAN]
    /\ tr = TrIdle

NextTranslate ==
    \/ Translate
    \/ TranslateSimplify
    \/ TranslateLingo
    \/ TranslateOpenai

SpecTranslate == InitTranslate /\ [][NextTranslate]_vars

----------------------------------------------------------------------------
(* Claims *)

SameKey(l, d) == l.medication_id = d.medication_id /\ l.taken_on = d.taken_on

AckOk == resp.op = "acknowledge_med" /\ ~resp.failed

\* C1: under acknowledgments in flight together, creates and soft deletes, the
\* reminder-log table holds at most one row for a (medication_id, taken_on) pair;
\* an acknowledgment that meets a row of its pair replaces it: the row of the pair
\* is then the one just written, with its status, and the number of rows is the
\* one before.
C1_OneLogPerMedicationAndDate ==
    /\ \A l1 \in reminder_logs : \A l2 \in reminder_logs : SameKey(l1, l2) => l1 = l2
    /\ AckOk => {l \in reminder_logs : SameKey(l, resp.body)} = {resp.body}
    /\ (AckOk /\ resp.arg.prior # <<>>) => Cardinality(reminder_logs) = resp.arg.rows
    /\ (AckOk /\ resp.arg.prior = <<>>) => Cardinality(reminder_logs) = resp.arg.rows + 1

\* C1 witness: after midnight an acknowledgment stamped with the date before has
\* replaced a row of the other status, while an acknowledgment of the same
\* medication and date is still in flight
C1_Witness ==
    /\ AckOk
    /\ resp.arg.prior # <<>>
    /\ resp.arg.prior[1].status = "taken"
    /\ resp.body.status = "missed"
    /\ resp.body.taken_on < clock.date
    /\ \E d \in BagToSet(acks) : SameKey(d, resp.body)
    /\ \E i \in DOMAIN medications : ~medications[i].is_active

SeniorOf(id) ==
    {medications[i].senior_id : i \in {j \in DOMAIN medications : medications[j].id = id}}

\* the request r has just been put in the bag, or has just reached this position
Arrived(r, before, after) == CopiesIn(r, after) > CopiesIn(r, before)

\* the medications of a senior that have never been inactive
NeverInactive(senior_id) ==
    {i \in DOMAIN medications :
        medications[i].senior_id = senior_id /\ medications[i].id \notin everInactive}

\* C2: no step sets is_active of a medication that has had is_active = FALSE back
\* to TRUE, and a select on the active medications that runs once a medication has
\* had is_active = FALSE, whatever requests were served in between, does not return
\* it: it is not in the result of get_medications, not among the medications
\* get_today_schedule joins, and not counted in the total of get_adherence_summary.
C2_InactiveExcludedForever ==
    /\ [](\A i \in DOMAIN medications :
            medications[i].id \in everInactive => ~medications[i].is_active)
    /\ [][/\ (resp'.op = "get_medications" /\ ~resp'.failed) =>
                \A i \in DOMAIN resp'.body : resp'.body[i].id \notin everInactive
          /\ \A r \in BagToSet(schedules') :
                (r.pc = "today" /\ Arrived(r, schedules, schedules')) =>
                   \A i \in DOMAIN r.meds : r.meds[i].id \notin everInactive
          /\ \A r \in BagToSet(summaries') :
                (r.pc = "logs" /\ Arrived(r, summaries, summaries')) =>
                   r.total <= Cardinality(NeverInactive(r.senior_id))]_vars

\* C2 witness: senior 1 has a soft-deleted medication acknowledged "taken" on the
\* date read and an active one, and the schedule of senior 1 that was just served
\* holds the active one only
C2_Witness ==
    /\ resp.op = "get_today_schedule"
    /\ ~resp.failed
    /\ resp.arg.senior_id = 1
    /\ Len(resp.body) = 1
    /\ resp.body[1].id \notin everInactive
    /\ \E id \in everInactive :
          /\ SeniorOf(id) = {1}
          /\ \E l \in reminder_logs :
                l.medication_id = id /\ l.taken_on = resp.arg.today /\ l.status = "taken"

\* C3: a step that serves delete_medication leaves reminder_logs and seniors as
\* they were, removes no medication row, and changes no medication row other than
\* setting is_active of the row with the given id to FALSE.
C3_SoftDeleteFrame ==
    [][resp'.op = "delete_medication" =>
          /\ reminder_logs' = reminder_logs
          /\ seniors' = seniors
          /\ Len(medications') = Len(medications)
          /\ \A i \in DOMAIN medications :
                \/ medications'[i] = medications[i]
                \/ /\ ~resp'.failed
                   /\ medications[i].id = resp'.arg
                   /\ medications'[i] = [medications[i] EXCEPT !.is_active = FALSE]]_vars

\* C3 witness: a medication with a log was just soft-deleted; its row and its log
\* are still stored, next to another medication that is active
C3_Witness ==
    /\ resp.op = "delete_medication"
    /\ ~resp.failed
    /\ \E i \in DOMAIN medications :
          /\ medications[i].id = resp.arg
          /\ ~medications[i].is_active
          /\ \E l \in reminder_logs : l.medication_id = resp.arg
    /\ \E i \in DOMAIN medications : medications[i].is_active
    /\ seniors # <<>>

SummaryOk == resp.op = "get_adherence_summary" /\ ~resp.failed

\* the active medications of a senior
ActiveMeds(senior_id) ==
    {i \in DOMAIN medications :
        medications[i].senior_id = senior_id /\ medications[i].is_active}

\* C4: a summary served without an adapter failure has percentage 100 when its
\* total is 0, whatever its taken, and otherwise the tenth of a percent nearest
\* to taken / total * 100; total is the number of active medications of the senior
\* (no write is served between the selects).
C4_PercentageRule ==
    SummaryOk =>
       /\ resp.body.total = Cardinality(ActiveMeds(resp.arg.senior_id))
       /\ resp.body.total = 0 => resp.body.percentage = 1000
       /\ resp.body.total > 0 =>
             /\ 2 * (resp.body.percentage * resp.body.total - 1000 * resp.body.taken)
                   <= resp.body.total
             /\ 2 * (1000 * resp.body.taken - resp.body.percentage * resp.body.total)
                   <= resp.body.total

\* C4 witness: two of three active medications counted taken, 66.7 percent
C4_Witness ==
    /\ SummaryOk
    /\ resp.body.total = 3
    /\ resp.body.taken = 2
    /\ resp.body.percentage = 667

\* the active medications of a senior that the log of a date marks "taken"
TakenActiveMeds(senior_id, day) ==
    {i \in ActiveMeds(senior_id) :
        \E l \in reminder_logs :
           /\ l.medication_id = medications[i].id
           /\ l.taken_on = day
           /\ l.status = "taken"}

\* C5: a summary served without an adapter failure has taken equal to the number of
\* active medications of the senior whose log of the date read is "taken", so that
\* taken is at most total and the percentage at most 100.  (Stated for the tables in
\* which every log is the log of a stored medication; no write is served between
\* the selects.)
C5_TakenIsShareOfActiveMeds ==
    (/\ SummaryOk
     /\ \A l \in reminder_logs :
           \E i \in DOMAIN medications : medications[i].id = l.medication_id) =>
       /\ resp.body.taken =
             Cardinality(TakenActiveMeds(resp.arg.senior_id, resp.arg.today))
       /\ resp.body.taken <= resp.body.total
       /\ resp.body.percentage <= 1000

\* the log row of a medication on a date
LogOn(med_id, day) ==
    {l \in reminder_logs : l.medication_id = med_id /\ l.taken_on = day}

\* C8: the select of get_today_schedule on medications returns every active
\* medication of the senior once and nothing else, and a schedule served without an
\* adapter failure holds the medications selected, in their order, each with its
\* log row of the date read when the table has one and with no log otherwise.
C8_ScheduleIsLeftJoin ==
    /\ [][\A r \in BagToSet(schedules') :
             (r.pc = "today" /\ Arrived(r, schedules, schedules')) =>
                /\ \A i \in ActiveMeds(r.senior_id) :
                      Cardinality({j \in DOMAIN r.meds : r.meds[j] = medications[i]}) = 1
                /\ \A j \in DOMAIN r.meds :
                      \E i \in ActiveMeds(r.senior_id) : r.meds[j] = medications[i]]_vars
    /\ []((resp.op = "get_today_schedule" /\ ~resp.failed) =>
            /\ Len(resp.body) = Len(resp.arg.meds)
            /\ \A j \in DOMAIN resp.body :
                  /\ resp.body[j].id = resp.arg.meds[j].id
                  /\ resp.body[j].name = resp.arg.meds[j].name
                  /\ resp.body[j].senior_id = resp.arg.senior_id
                  /\ resp.body[j].is_active
                  /\ IF LogOn(resp.body[j].id, resp.arg.today) # {}
                     THEN /\ Len(resp.body[j].log) = 1
                          /\ resp.body[j].log[1] \in
                                LogOn(resp.body[j].id, resp.arg.today)
                     ELSE resp.body[j].log = <<>>)

\* C8 witness: a schedule of two medications, the first with its log of the date
\* read, the table holding its log of the date before too, the second, which has
\* no log, without one
C8_Witness ==
    /\ resp.op = "get_today_schedule"
    /\ ~resp.failed
    /\ Len(resp.body) = 2
    /\ Len(resp.body[1].log) = 1
    /\ resp.body[1].log[1].taken_on = resp.arg.today
    /\ \E l \in reminder_logs :
          l.medication_id = resp.body[1].id /\ l.taken_on < resp.arg.today
    /\ resp.body[2].log = <<>>

ReadOps == {"get_senior", "get_medications", "get_today_schedule",
            "get_adherence_summary"}
WriteOps == {"update_senior", "add_medication", "delete_medication",
             "acknowledge_med"}

\* C9: an adapter failure is masked by every read (the fallback profile, an empty
\* list, an empty schedule, the all-zero summary, each a 200) and surfaced by every
\* write (a 500 with the adapter's message), and the request that fails leaves the
\* three tables as they were.
C9_FailuresMaskedOrSurfaced ==
    /\ [](resp.failed =>
            /\ resp.op \in ReadOps \cup WriteOps
            /\ resp.op \in ReadOps => resp.code = 200
            /\ resp.op = "get_senior" => resp.body = FallbackSenior
            /\ resp.op \in {"get_medications", "get_today_schedule"} =>
                  resp.body = <<>>
            /\ resp.op = "get_adherence_summary" =>
                  resp.body = [total |-> 0, taken |-> 0, percentage |-> 0]
            /\ resp.op \in WriteOps =>
                  /\ resp.code = 500
                  /\ resp.body.detail =
                        IF configured THEN NetworkError ELSE NoClientError)
    /\ [](~resp.failed => resp.code # 500)
    /\ [][resp'.failed =>
             /\ seniors' = seniors
             /\ medications' = medications
             /\ reminder_logs' = reminder_logs]_vars

\* C9 witness: with a client and rows in every table, a select of a summary has
\* failed and the all-zero summary was served
C9_Witness ==
    /\ configured
    /\ resp.failed
    /\ resp.op = "get_adherence_summary"
    /\ resp.code = 200
    /\ seniors # <<>>
    /\ medications # <<>>
    /\ reminder_logs # {}

\* C10: delete_medication served without an adapter failure answers
\* {status: "deleted"} for every id, and when no active row has the id (the row is
\* inactive already, or there is none) the three tables are left as they were.
C10_SoftDeleteIdempotent ==
    [][(resp'.op = "delete_medication" /\ ~resp'.failed) =>
          /\ resp'.code = 200
          /\ resp'.body = [status |-> "deleted"]
          /\ (~\E i \in DOMAIN medications :
                   medications[i].id = resp'.arg /\ medications[i].is_active) =>
                /\ medications' = medications
                /\ reminder_logs' = reminder_logs
                /\ seniors' = seniors
          /\ \A i \in DOMAIN medications' :
                medications'[i].id = resp'.arg => ~medications'[i].is_active]_vars

\* C10 witness: the delete of an id that no row has was answered "deleted", next to
\* an inactive and an active medication
C10_Witness ==
    /\ resp.op = "delete_medication"
    /\ ~resp.failed
    /\ resp.body = [status |-> "deleted"]
    /\ \A i \in DOMAIN medications : medications[i].id # resp.arg
    /\ \E i \in DOMAIN medications : ~medications[i].is_active
    /\ \E i \in DOMAIN medications : medications[i].is_active

TranslateServed == tr.pc = "done" /\ tr.text # <<>>

NoLingoCredential == ~env.LINGO_API_KEY /\ ~env.LINGO_PROJECT_ID

\* C6: a translate request with a non-empty text is answered with provider "openai"
\* when the language-model credential is set and no translation-provider credential
\* is, and with the original text and provider "none" when neither credential is set.
C6_ProviderTagByCredentials ==
    TranslateServed =>
       /\ (env.OPENAI_API_KEY /\ NoLingoCredential) => tr.resp.provider = "openai"
       /\ (~env.OPENAI_API_KEY /\ NoLingoCredential) =>
             /\ tr.resp.provider = "none"
             /\ tr.resp.translated_text = tr.text

PipelineOrder == <<"openai_simplify", "call_lingo_translate", "openai_translate">>

\* C7: the helpers of a translate request are called in the order simplify, dedicated
\* translator, language-model translator, each at most once; the dedicated
\* translator is called on every non-empty text, with what simplify returned; when
\* it returns a usable result the request ends there, answered with that result and
\* provider "lingo.dev", and the language-model translator is not called.
C7_PipelineOrder ==
    /\ Len(tr.calls) <= 3
    /\ \A i \in DOMAIN tr.calls : tr.calls[i].fn = PipelineOrder[i]
    /\ TranslateServed => Len(tr.calls) >= 2
    /\ tr.text = <<>> => tr.calls = <<>>
    /\ Len(tr.calls) >= 1 => tr.calls[1].text = tr.text
    /\ Len(tr.calls) >= 2 =>
          /\ tr.calls[2].text = tr.calls[1].value
          /\ Truthy(tr.calls[2].value) =>
                /\ tr.pc = "done"
                /\ Len(tr.calls) = 2
                /\ tr.resp.provider = "lingo.dev"
                /\ tr.resp.translated_text = tr.calls[2].value.val
          /\ ~Truthy(tr.calls[2].value) => tr.pc = "openai" \/ Len(tr.calls) = 3
    /\ Len(tr.calls) = 3 =>
          /\ tr.calls[3].text = tr.calls[1].value
          /\ tr.resp.provider # "lingo.dev"

\* C7 witness: simplify went out and changed the text, the dedicated translator went
\* out with the simplified text and its result was returned
C7_Witness ==
    /\ TranslateServed
    /\ Len(tr.calls) = 2
    /\ tr.calls[1].outbound
    /\ tr.calls[1].value # tr.text
    /\ tr.calls[2].outbound
    /\ tr.resp.provider = "lingo.dev"
    /\ tr.resp.translated_text = <<"d">>

====
